---------------------------- MODULE Spec2Model ----------------------------
(***************************************************************************)
(* Model of the rubric checker: parseRubric (src/app/lib/parseRubric.ts),  *)
(* the grammar proxy POST (src/app/api/grammar/route.ts) and the page's    *)
(* runGrammarCheck (src/app/page.tsx).                                     *)
(*                                                                         *)
(* A JavaScript string is a sequence of one-character strings, so that     *)
(* trim, split, slice, startsWith, toUpperCase, Number and localeCompare   *)
(* are computed character by character as the code computes them.          *)
(***************************************************************************)
EXTENDS Integers, Sequences, FiniteSets, TLC

VARIABLES
    pc,             \* parseRubric: "ingest" (inside lines.forEach) or "done" (returned)
    lines,          \* the lines of the raw text consumed so far by lines.forEach
    map,            \* Map<string, RubricEntry>, in insertion order
    duplicateKeys,  \* string[]
    rawValues,      \* Map<string, string>, in insertion order
    result,         \* the ParseResult returned (EmptyResult until pc = "done")
    items,          \* page: justificationItems, the {id, text} list sent to /api/grammar
    gpc,            \* page/route position: "idle", "requested", "calling", "responded"
    calls,          \* route: state of each outbound LanguageTool call
    settled,        \* route: how Promise.all settled
    issuesOf,       \* route: the issues each fulfilled call returned
    response,       \* route: the NextResponse of POST
    grammarResults, \* page state: Record<string, GrammarIssue[]>
    checking,       \* page state
    error,          \* page state: string | null
    prevResults,    \* grammarResults when the running runGrammarCheck began
    completed,      \* route: the outbound calls in the order they settled
    runs            \* number of runGrammarCheck invocations so far

parserVars == <<pc, lines, map, duplicateKeys, rawValues, result>>
grammarVars == <<items, gpc, calls, settled, issuesOf, response, grammarResults,
                 checking, error, prevResults, completed, runs>>
vars == <<pc, lines, map, duplicateKeys, rawValues, result, items, gpc, calls,
          settled, issuesOf, response, grammarResults, checking, error,
          prevResults, completed, runs>>

-----------------------------------------------------------------------------
(* Bounds of the model *)

\* longest raw text, in lines, that parseRubric is given
MaxLines == 3
\* most runGrammarCheck invocations in one behaviour
MaxRuns == 2

-----------------------------------------------------------------------------
(* Characters *)

Upper == <<"A","B","C","D","E","F","G","H","I","J","K","L","M",
           "N","O","P","Q","R","S","T","U","V","W","X","Y","Z">>
Lower == <<"a","b","c","d","e","f","g","h","i","j","k","l","m",
           "n","o","p","q","r","s","t","u","v","w","x","y","z">>
Digits == <<"0","1","2","3","4","5","6","7","8","9">>
\* the other characters of the model's alphabet, in the order of the CLDR root
\* collation (white space, then punctuation, then symbols)
Others == <<"\t", " ", "_", "-", ":", "\"", "#">>
\* their UTF-16 code units
OthersCode == <<9, 32, 95, 45, 58, 34, 35>>

Range(s) == {s[i] : i \in DOMAIN s}
UpperSet == Range(Upper)
LowerSet == Range(Lower)
DigitSet == Range(Digits)
Pos(c, s) == CHOOSE i \in DOMAIN s : s[i] = c

\* String.prototype.trim's white space, within the alphabet
IsSpace(c) == c \in {" ", "\t"}
IsDigit(c) == c \in DigitSet
DigitVal(c) == Pos(c, Digits) - 1
\* the UTF-16 code unit of a character
CodeUnit(c) ==
    IF c \in UpperSet THEN 64 + Pos(c, Upper)
    ELSE IF c \in LowerSet THEN 96 + Pos(c, Lower)
    ELSE IF c \in DigitSet THEN 47 + Pos(c, Digits)
    ELSE OthersCode[Pos(c, Others)]
ToUpperChar(c) == IF c \in LowerSet THEN Upper[Pos(c, Lower)] ELSE c
ToLowerChar(c) == IF c \in UpperSet THEN Lower[Pos(c, Upper)] ELSE c

-----------------------------------------------------------------------------
(* Strings *)

ToUpperCase(s) == [i \in DOMAIN s |-> ToUpperChar(s[i])]
ToLowerCase(s) == [i \in DOMAIN s |-> ToLowerChar(s[i])]

\* s.slice(from) / s.slice(from, to), 1-based inclusive here
Slice(s, from, to) == IF to < from THEN <<>> ELSE SubSeq(s, from, to)

RECURSIVE TrimStart(_)
TrimStart(s) ==
    IF s # <<>> /\ IsSpace(Head(s)) THEN TrimStart(Tail(s)) ELSE s
RECURSIVE TrimEnd(_)
TrimEnd(s) ==
    IF s # <<>> /\ IsSpace(s[Len(s)]) THEN TrimEnd(SubSeq(s, 1, Len(s) - 1)) ELSE s
Trim(s) == TrimEnd(TrimStart(s))

StartsWith(s, p) == Len(p) <= Len(s) /\ SubSeq(s, 1, Len(p)) = p
EndsWith(s, p) == Len(p) <= Len(s) /\ SubSeq(s, Len(s) - Len(p) + 1, Len(s)) = p
Includes(s, p) ==
    \E i \in 1..(Len(s) - Len(p) + 1) : SubSeq(s, i, i + Len(p) - 1) = p
HasChar(s, c) == \E i \in DOMAIN s : s[i] = c
\* index of the first c in s, 0 when there is none
IndexOf(s, c) ==
    IF HasChar(s, c)
    THEN CHOOSE i \in DOMAIN s : s[i] = c /\ \A j \in 1..(i - 1) : s[j] # c
    ELSE 0
LastIndexOf(s, c) ==
    IF HasChar(s, c)
    THEN CHOOSE i \in DOMAIN s : s[i] = c /\ \A j \in (i + 1)..Len(s) : s[j] # c
    ELSE 0

\* s.split(sep) for a one-character separator
RECURSIVE Split(_, _)
Split(s, sep) ==
    LET i == IndexOf(s, sep)
    IN  IF i = 0 THEN <<s>>
        ELSE <<SubSeq(s, 1, i - 1)>> \o Split(SubSeq(s, i + 1, Len(s)), sep)
\* parts.join(sep)
RECURSIVE Join(_, _)
Join(parts, sep) ==
    IF parts = <<>> THEN <<>>
    ELSE IF Len(parts) = 1 THEN parts[1]
    ELSE parts[1] \o <<sep>> \o Join(Tail(parts), sep)


-----------------------------------------------------------------------------
(* Number(value) *)

RECURSIVE DecimalValue(_)
DecimalValue(s) ==
    IF s = <<>> THEN 0
    ELSE 10 * DecimalValue(SubSeq(s, 1, Len(s) - 1)) + DigitVal(s[Len(s)])
AllDigits(s) == s # <<>> /\ \A i \in DOMAIN s : IsDigit(s[i])
\* Number(s) for a string of the alphabet: white space is trimmed, the empty
\* string is 0, an optionally signed run of decimal digits is its value,
\* anything else is NaN.  (The alphabet has no ".", and no value of the model
\* spells an exponent, a radix prefix or "Infinity".)
NumberOf(s) ==
    LET t == Trim(s)
    IN  IF t = <<>> THEN [nan |-> FALSE, val |-> 0]
        ELSE IF AllDigits(t) THEN [nan |-> FALSE, val |-> DecimalValue(t)]
        ELSE IF Head(t) = "-" /\ AllDigits(Tail(t))
             THEN [nan |-> FALSE, val |-> 0 - DecimalValue(Tail(t))]
        ELSE [nan |-> TRUE, val |-> 0]

-----------------------------------------------------------------------------
(* Map<string, V> in insertion order: a sequence of [k, v] *)

MapHas(m, k) == \E i \in DOMAIN m : m[i].k = k
MapGet(m, k) == m[CHOOSE i \in DOMAIN m : m[i].k = k].v
MapSet(m, k, v) ==
    IF MapHas(m, k)
    THEN [i \in DOMAIN m |-> IF m[i].k = k THEN [k |-> k, v |-> v] ELSE m[i]]
    ELSE Append(m, [k |-> k, v |-> v])
\* Array.from(m.values())
MapValues(m) == [i \in DOMAIN m |-> m[i].v]

-----------------------------------------------------------------------------
(* Line ingestion and entry assembly *)

SCORE == <<"s","c","o","r","e">>
VERDICT == <<"v","e","r","d","i","c","t">>
JUSTIFICATION == <<"j","u","s","t","i","f","i","c","a","t","i","o","n">>
FIELD_NAMES == {SCORE, VERDICT, JUSTIFICATION}
QUOTE == "\""

Last(s) == s[Len(s)]
detectField(key) ==
    LET part == Last(Split(key, "_"))
    IN  IF part \in FIELD_NAMES
        THEN (IF part = SCORE THEN "score"
              ELSE IF part = VERDICT THEN "verdict" ELSE "justification")
        ELSE "other"

\* key.split('_').slice(0, -1).join('_') || key
BaseIdNoFallback(key) ==
    Join(SubSeq(Split(key, "_"), 1, Len(Split(key, "_")) - 1), "_")
BaseId(key) ==
    LET parts == Split(key, "_")
        joined == Join(SubSeq(parts, 1, Len(parts) - 1), "_")
    IN  IF joined # <<>> THEN joined ELSE key

\* trimmed.match(/^([^:]+):\s*(.+)$/): the key is everything before the first
\* colon and is not empty; \s* takes the white space after the colon but
\* leaves (.+) at least one character
Match(trimmed) ==
    LET i == IndexOf(trimmed, ":")
        rest == SubSeq(trimmed, i + 1, Len(trimmed))
        stripped == TrimStart(rest)
    IN  IF i <= 1 \/ rest = <<>> THEN [ok |-> FALSE, key |-> <<>>, value |-> <<>>]
        ELSE [ok |-> TRUE,
              key |-> SubSeq(trimmed, 1, i - 1),
              value |-> IF stripped # <<>> THEN stripped ELSE <<Last(rest)>>]

\* the stripping if a value wrapped in doubled quotes were left as it is
StripQuotesUnlessDoubled(originalValue) ==
    IF /\ StartsWith(originalValue, <<QUOTE>>)
       /\ EndsWith(originalValue, <<QUOTE>>)
       /\ Len(originalValue) >= 2
       /\ ~(StartsWith(originalValue, <<QUOTE, QUOTE>>) /\ Len(originalValue) >= 4)
    THEN Slice(originalValue, 2, Len(originalValue) - 1)
    ELSE originalValue
\* if (value.startsWith('"') && value.endsWith('"') && value.length >= 2) value = value.slice(1, -1)
StripQuotes(originalValue) ==
    IF /\ StartsWith(originalValue, <<QUOTE>>)
       /\ EndsWith(originalValue, <<QUOTE>>)
       /\ Len(originalValue) >= 2
    THEN Slice(originalValue, 2, Len(originalValue) - 1)
    ELSE originalValue

\* { id: baseId, raw: {} }
NewRecord(baseId) ==
    [id |-> baseId,
     hasScore |-> FALSE, score |-> 0,
     hasVerdict |-> FALSE, verdict |-> <<>>,
     hasJustification |-> FALSE, justification |-> <<>>,
     raw |-> <<>>]

\* record.raw[key] = value
RawSet(raw, key, value) ==
    [k \in (DOMAIN raw) \cup {key} |-> IF k = key THEN value ELSE raw[k]]

\* the typed attribute assignment of lines 66-73
AssignField(record, field, value) ==
    IF field = "score"
    THEN (IF ~NumberOf(value).nan
          THEN [record EXCEPT !.hasScore = TRUE, !.score = NumberOf(value).val]
          ELSE record)
    ELSE IF field = "verdict"
    THEN [record EXCEPT !.hasVerdict = TRUE, !.verdict = value]
    ELSE IF field = "justification"
    THEN [record EXCEPT !.hasJustification = TRUE, !.justification = value]
    ELSE record

\* whether the callback of lines.forEach returns before line 50
DroppedNoComment(line) ==
    LET trimmed == Trim(line)
    IN  \/ trimmed = <<>>
        \/ ~Match(trimmed).ok
Dropped(line) ==
    LET trimmed == Trim(line)
    IN  \/ trimmed = <<>>
        \/ StartsWith(trimmed, <<"#">>)
        \/ ~Match(trimmed).ok

\* if (rawValues.has(key)) duplicateKeys.push(key)
DuplicatePushOnce(st, key) ==
    IF MapHas(st.rawValues, key) /\ key \notin Range(st.duplicateKeys)
    THEN Append(st.duplicateKeys, key)
    ELSE st.duplicateKeys
DuplicatePush(st, key) ==
    IF MapHas(st.rawValues, key)
    THEN Append(st.duplicateKeys, key)
    ELSE st.duplicateKeys

\* the callback of lines.forEach on one line: st is [map, duplicateKeys, rawValues]
IngestLine(st, line) ==
    IF Dropped(line) THEN st
    ELSE
    LET match == Match(Trim(line))
        key == Trim(match.key)
        originalValue == Trim(match.value)
        value == StripQuotes(originalValue)
        field == detectField(key)
        baseId == BaseId(key)
        record == IF MapHas(st.map, baseId) THEN MapGet(st.map, baseId)
                  ELSE NewRecord(baseId)
        assigned == AssignField(record, field, value)
        stored == [assigned EXCEPT !.raw = RawSet(assigned.raw, key, value)]
    IN  [map |-> MapSet(st.map, baseId, stored),
         duplicateKeys |-> DuplicatePush(st, key),
         rawValues |-> MapSet(st.rawValues, key, originalValue)]

EmptyIngest == [map |-> <<>>, duplicateKeys |-> <<>>, rawValues |-> <<>>]
\* lines.forEach(...) from empty maps
RECURSIVE IngestAll(_)
IngestAll(ls) ==
    IF ls = <<>> THEN EmptyIngest
    ELSE IngestLine(IngestAll(SubSeq(ls, 1, Len(ls) - 1)), Last(ls))

-----------------------------------------------------------------------------
(* a.id.localeCompare(b.id) *)

\* Primary weight of a character in the CLDR root collation, which the ICU
\* collator behind localeCompare uses for the default (English) locales:
\* white space < punctuation ("_" first) < symbols < digits < letters, a
\* letter's two cases sharing one primary weight.
PrimaryWeight(c) ==
    IF c \in UpperSet \/ c \in LowerSet THEN 200 + Pos(ToLowerChar(c), Lower)
    ELSE IF c \in DigitSet THEN 100 + DigitVal(c)
    ELSE Pos(c, Others)
\* Tertiary (case) weight: lower case before upper case
CaseWeight(c) == IF c \in UpperSet THEN 1 ELSE 0

\* lexicographic comparison of two sequences of weights: -1, 0 or 1
RECURSIVE LexCompare(_, _)
LexCompare(a, b) ==
    IF a = <<>> /\ b = <<>> THEN 0
    ELSE IF a = <<>> THEN -1
    ELSE IF b = <<>> THEN 1
    ELSE IF Head(a) < Head(b) THEN -1
    ELSE IF Head(a) > Head(b) THEN 1
    ELSE LexCompare(Tail(a), Tail(b))
CodeUnits(s) == [i \in DOMAIN s |-> CodeUnit(s[i])]
PrimaryWeights(s) == [i \in DOMAIN s |-> PrimaryWeight(s[i])]
CaseWeights(s) == [i \in DOMAIN s |-> CaseWeight(s[i])]

\* code-unit comparison, as a.id < b.id would compare
OrdinalCompare(a, b) == LexCompare(CodeUnits(a), CodeUnits(b))
\* the strings are compared by primary weights first, and by case only when
\* all primary weights agree
LocaleCompare(a, b) ==
    IF LexCompare(PrimaryWeights(a), PrimaryWeights(b)) # 0
    THEN LexCompare(PrimaryWeights(a), PrimaryWeights(b))
    ELSE LexCompare(CaseWeights(a), CaseWeights(b))

\* es.sort((a, b) => a.id.localeCompare(b.id)): a stable sort
RECURSIVE InsertSorted(_, _)
InsertSorted(e, sorted) ==
    IF sorted = <<>> THEN <<e>>
    ELSE IF LocaleCompare(e.id, Last(sorted).id) >= 0 THEN Append(sorted, e)
    ELSE Append(InsertSorted(e, SubSeq(sorted, 1, Len(sorted) - 1)), Last(sorted))
RECURSIVE SortRec(_)
SortRec(es) ==
    IF es = <<>> THEN <<>>
    ELSE InsertSorted(Last(es), SortRec(SubSeq(es, 1, Len(es) - 1)))
Unsorted(es) == es
SortById(es) == SortRec(es)

-----------------------------------------------------------------------------
(* Diagnostics *)

ACCEPTED == <<"A","C","C","E","P","T","E","D">>
WRONG == <<"W","R","O","N","G">>
WRONG_ANSWER == <<"W","R","O","N","G","_","A","N","S","W","E","R">>
ALLOWED_VERDICTS == {ACCEPTED, WRONG_ANSWER}
SMILES == <<"S","M","I","L","E","S">>
PYTHON == <<"P","y","t","h","o","n">>
\* text.slice(0, 120)
SnippetLen == 120

\* e.verdict ?? ''
VerdictOrEmpty(e) == IF e.hasVerdict THEN e.verdict ELSE <<>>
\* truthiness of e.verdict / e.justification: set and not the empty string
VerdictTruthy(e) == e.hasVerdict /\ e.verdict # <<>>
JustificationTruthy(e) == e.hasJustification /\ e.justification # <<>>
\* e.score ?? 0
ScoreOrZero(e) == IF e.hasScore THEN e.score ELSE 0
\* e.id.includes('_')
IsSubItem(e) == HasChar(e.id, "_")

\* es.reduce((sum, entry) => sum + (entry.score ?? 0), 0)
RECURSIVE SumScores(_)
SumScores(es) ==
    IF es = <<>> THEN 0 ELSE SumScores(SubSeq(es, 1, Len(es) - 1)) + ScoreOrZero(Last(es))

\* the concatenation of a sequence of sequences: what a forEach that pushes
\* zero or more records per element builds
RECURSIVE Concat(_)
Concat(ss) == IF ss = <<>> THEN <<>> ELSE Head(ss) \o Concat(Tail(ss))

TotalScore(entries) == SumScores(entries)
ExpectedTotalAll(entries) == SumScores(entries)
ExpectedTotal(entries) == SumScores(SelectSeq(entries, IsSubItem))

WrongVerdicts(entries) ==
    LET Test(e) == Includes(ToUpperCase(VerdictOrEmpty(e)), WRONG)
    IN  Len(SelectSeq(entries, Test))

InvalidVerdictsNoTrim(entries) ==
    LET Test(e) == VerdictTruthy(e) /\ ToUpperCase(e.verdict) \notin ALLOWED_VERDICTS
    IN  SelectSeq(entries, Test)
InvalidVerdicts(entries) ==
    LET Test(e) ==
            VerdictTruthy(e) /\ ToUpperCase(Trim(e.verdict)) \notin ALLOWED_VERDICTS
    IN  SelectSeq(entries, Test)

MissingJustifications(entries) ==
    LET Test(e) == ~(JustificationTruthy(e) /\ Len(Trim(e.justification)) # 0)
    IN  SelectSeq(entries, Test)

MissingComponents(entries) ==
    LET F(e) ==
            LET missing ==
                    (IF ~e.hasScore THEN <<"score">> ELSE <<>>)
                    \o (IF ~VerdictTruthy(e) THEN <<"verdict">> ELSE <<>>)
                    \o (IF ~JustificationTruthy(e) THEN <<"justification">> ELSE <<>>)
            IN  IF Len(missing) # 0 THEN <<[id |-> e.id, missing |-> missing]>> ELSE <<>>
    IN  Concat([n \in DOMAIN entries |-> F(entries[n])])

CasingIssues(entries) ==
    LET F(e) ==
            IF ~JustificationTruthy(e) THEN <<>>
            ELSE
            LET text == e.justification
                snippet == Slice(text, 1, IF Len(text) < SnippetLen THEN Len(text) ELSE SnippetLen)
            IN  (IF Includes(ToLowerCase(text), ToLowerCase(SMILES)) /\ ~Includes(text, SMILES)
                 THEN <<[id |-> e.id, type |-> "SMILES", snippet |-> snippet]>> ELSE <<>>)
                \o
                (IF Includes(ToLowerCase(text), ToLowerCase(PYTHON)) /\ ~Includes(text, PYTHON)
                 THEN <<[id |-> e.id, type |-> "PYTHON", snippet |-> snippet]>> ELSE <<>>)
    IN  Concat([n \in DOMAIN entries |-> F(entries[n])])

\* the sum of the numeric scores of the entries whose id starts with `${total.id}_`
ExpectedOfAnyPrefix(entries, total) ==
    LET Test(e) == StartsWith(e.id, total.id) /\ e.hasScore
    IN  SumScores(SelectSeq(entries, Test))
ExpectedOf(entries, total) ==
    LET Test(e) == StartsWith(e.id, total.id \o <<"_">>) /\ e.hasScore
    IN  SumScores(SelectSeq(entries, Test))
TotalMismatches(entries) ==
    LET IsTotal(e) == ~IsSubItem(e) /\ e.hasScore
        F(total) ==
            IF total.hasScore /\ total.score # ExpectedOf(entries, total)
            THEN <<[id |-> total.id, reported |-> total.score,
                    expected |-> ExpectedOf(entries, total)]>>
            ELSE <<>>
    IN  LET totals == SelectSeq(entries, IsTotal)
        IN  Concat([n \in DOMAIN totals |-> F(totals[n])])

ZeroScoreAccepted(entries) ==
    LET Test(e) ==
            e.hasScore /\ e.score = 0 /\ ToUpperCase(VerdictOrEmpty(e)) = ACCEPTED
    IN  SelectSeq(entries, Test)

MsgAcceptedButWrong == "Contains WRONG_ANSWER sub-items but final verdict is ACCEPTED."
MsgWrongButAccepted == "All sub-items ACCEPTED but final verdict is WRONG."
VerdictConsistency(entries) ==
    LET IsTopLevelVerdict(e) == ~IsSubItem(e) /\ VerdictTruthy(e)
        anyWrong ==
            \E i \in DOMAIN entries :
                ToUpperCase(VerdictOrEmpty(entries[i])) = WRONG_ANSWER
        subs == SelectSeq(entries, IsSubItem)
        allAccepted ==
            /\ Len(subs) > 0
            /\ \A i \in DOMAIN subs : ToUpperCase(VerdictOrEmpty(subs[i])) = ACCEPTED
        F(e) ==
            LET verdict == ToUpperCase(VerdictOrEmpty(e))
            IN  (IF anyWrong /\ verdict = ACCEPTED
                 THEN <<[id |-> e.id, message |-> MsgAcceptedButWrong]>> ELSE <<>>)
                \o
                (IF allAccepted /\ Includes(verdict, WRONG)
                 THEN <<[id |-> e.id, message |-> MsgWrongButAccepted]>> ELSE <<>>)
    IN  LET topLevelVerdicts == SelectSeq(entries, IsTopLevelVerdict)
        IN  Concat([n \in DOMAIN topLevelVerdicts |-> F(topLevelVerdicts[n])])

\* e.id.match(/^(.*_)(\d+)$/): the id ends in a run of digits that follows an
\* underscore; the greedy (.*_) then ends at the last underscore
IndexMatch(id) ==
    LET j == LastIndexOf(id, "_")
    IN  IF j > 0 /\ AllDigits(SubSeq(id, j + 1, Len(id)))
        THEN [ok |-> TRUE, group |-> SubSeq(id, 1, j),
              idx |-> DecimalValue(SubSeq(id, j + 1, Len(id)))]
        ELSE [ok |-> FALSE, group |-> <<>>, idx |-> 0]

\* groupMap: Map<string, number[]>, filled in the order of entries
RECURSIVE GroupMap(_)
GroupMap(entries) ==
    IF entries = <<>> THEN <<>>
    ELSE
    LET before == GroupMap(SubSeq(entries, 1, Len(entries) - 1))
        m == IndexMatch(Last(entries).id)
        arr == IF MapHas(before, m.group) THEN MapGet(before, m.group) ELSE <<>>
    IN  IF ~m.ok THEN before ELSE MapSet(before, m.group, Append(arr, m.idx))

SetMin(S) == CHOOSE x \in S : \A y \in S : x <= y
SetMax(S) == CHOOSE x \in S : \A y \in S : x >= y
\* the integers of lo..hi that are not in S, ascending
RECURSIVE MissingBetween(_, _, _)
MissingBetween(lo, hi, S) ==
    IF lo > hi THEN <<>>
    ELSE (IF lo \in S THEN <<>> ELSE <<lo>>) \o MissingBetween(lo + 1, hi, S)
MissingFromOne(indices) == MissingBetween(1, SetMax(Range(indices)), Range(indices))
MissingOf(indices) ==
    MissingBetween(SetMin(Range(indices)), SetMax(Range(indices)), Range(indices))
SkippedIndices(entries) ==
    LET F(g) ==
            IF Len(MissingOf(g.v)) # 0
            THEN <<[group |-> g.k, missing |-> MissingOf(g.v)]>> ELSE <<>>
    IN  LET groupMap == GroupMap(entries)
        IN  Concat([n \in DOMAIN groupMap |-> F(groupMap[n])])

ExtraQuoteVerdicts(rv) ==
    LET F(p) ==
            IF ~EndsWith(p.k, <<"_">> \o VERDICT) THEN <<>>
            ELSE IF StartsWith(p.v, <<QUOTE, QUOTE>>) \/ EndsWith(p.v, <<QUOTE, QUOTE>>)
            THEN <<[id |-> BaseId(p.k), raw |-> p.v]>>
            ELSE <<>>
    IN  Concat([n \in DOMAIN rv |-> F(rv[n])])

\* lines 79-201: what parseRubric returns once lines.forEach has run
Diagnose(st) ==
    LET entries == SortById(MapValues(st.map))
    IN  [entries |-> entries,
         totalScore |-> TotalScore(entries),
         expectedTotal |-> ExpectedTotal(entries),
         wrongVerdicts |-> WrongVerdicts(entries),
         invalidVerdicts |-> InvalidVerdicts(entries),
         missingJustifications |-> MissingJustifications(entries),
         totalMismatches |-> TotalMismatches(entries),
         casingIssues |-> CasingIssues(entries),
         missingComponents |-> MissingComponents(entries),
         duplicateKeys |-> st.duplicateKeys,
         skippedIndices |-> SkippedIndices(entries),
         zeroScoreAccepted |-> ZeroScoreAccepted(entries),
         verdictConsistency |-> VerdictConsistency(entries),
         extraQuoteVerdicts |-> ExtraQuoteVerdicts(st.rawValues)]

\* parseRubric(raw), raw given as its lines (raw.split(/\r?\n/))
parseRubric(ls) == Diagnose(IngestAll(ls))

-----------------------------------------------------------------------------
(* The lines a raw text is made of *)

\* Q1_score: 3
LineScore3 ==
    <<"Q","1","_","s","c","o","r","e",":"," ","3">>
\*  Q1_score : 5
LineScore5 ==
    <<" ","Q","1","_","s","c","o","r","e"," ",":"," ","5">>
\* Q1_score: abc
LineScoreAbc ==
    <<"Q","1","_","s","c","o","r","e",":"," ","a","b","c">>
\* Q1_1_score: 3
LineSub1Score ==
    <<"Q","1","_","1","_","s","c","o","r","e",":"," ","3">>
\* Q1_3_score: 0
LineSub3Score ==
    <<"Q","1","_","3","_","s","c","o","r","e",":"," ","0">>
\* Q1_2_notes: x
LineSub2Notes ==
    <<"Q","1","_","2","_","n","o","t","e","s",":"," ","x">>
\* Q10_score: 2
LineQ10Score ==
    <<"Q","1","0","_","s","c","o","r","e",":"," ","2">>
\* Q1_1_verdict: "WRONG_ANSWER"
LineSub1Verdict ==
    <<"Q","1","_","1","_","v","e","r","d","i","c","t",":"," ","\"","W","R","O","N","G","_","A","N","S","W","E","R","\"">>
\* Q1_verdict: accepted
LineVerdictLower ==
    <<"Q","1","_","v","e","r","d","i","c","t",":"," ","a","c","c","e","p","t","e","d">>
\* Q1_verdict: maybe
LineVerdictMaybe ==
    <<"Q","1","_","v","e","r","d","i","c","t",":"," ","m","a","y","b","e">>
\* score: 4
LineBareScore ==
    <<"s","c","o","r","e",":"," ","4">>
\* Q10_verdict: " Accepted "
LineVerdictPadded ==
    <<"Q","1","0","_","v","e","r","d","i","c","t",":"," ","\""," ","A","c","c","e","p","t","e","d"," ","\"">>
\* Q1_01_justification: ok
LineSub01Just ==
    <<"Q","1","_","0","1","_","j","u","s","t","i","f","i","c","a","t","i","o","n",":"," ","o","k">>
\* # Q1_score: 9
LineComment ==
    <<"#"," ","Q","1","_","s","c","o","r","e",":"," ","9">>
\* (a line of two spaces)
LineBlank ==
    <<" "," ">>
\* Q1_score:
LineNoValue ==
    <<"Q","1","_","s","c","o","r","e",":">>
\* Q2_verdict: ACCEPTED
LineQ2Accepted ==
    <<"Q","2","_","v","e","r","d","i","c","t",":"," ","A","C","C","E","P","T","E","D">>
\* Q3_verdict: WRONG_ANSWER
LineQ3Wrong ==
    <<"Q","3","_","v","e","r","d","i","c","t",":"," ","W","R","O","N","G","_","A","N","S","W","E","R">>
\* Q1_verdict: ""ACCEPTED""
LineVerdictDoubled ==
    <<"Q","1","_","v","e","r","d","i","c","t",":"," ","\"","\"","A","C","C","E","P","T","E","D","\"","\"">>
\* Q1_score: ""
LineScoreEmpty ==
    <<"Q","1","_","s","c","o","r","e",":"," ","\"","\"">>
\* Q3_verdict: "
LineVerdictQuote ==
    <<"Q","3","_","v","e","r","d","i","c","t",":"," ","\"">>
Pool ==
    {LineScore3,
     LineScore5,
     LineScoreAbc,
     LineSub1Score,
     LineSub3Score,
     LineSub2Notes,
     LineQ10Score,
     LineSub1Verdict,
     LineVerdictLower,
     LineVerdictMaybe,
     LineBareScore,
     LineVerdictPadded,
     LineSub01Just,
     LineComment,
     LineBlank,
     LineNoValue}
\* the lines of the raw texts that exercise quoted, empty and verdict values
ValuePool ==
    {LineQ2Accepted,
     LineQ3Wrong,
     LineSub1Verdict,
     LineVerdictLower,
     LineVerdictDoubled,
     LineVerdictPadded,
     LineVerdictQuote,
     LineScoreEmpty,
     LineScoreAbc,
     LineScore3,
     LineSub1Score}

-----------------------------------------------------------------------------
(* parseRubric as a state machine: lines.forEach, then the derived views *)

EmptyResult == Diagnose(EmptyIngest)
NoResponse == [status |-> 0, results |-> <<>>, error |-> ""]

GrammarIdle ==
    /\ items = <<>>
    /\ gpc = "idle"
    /\ calls = <<>>
    /\ settled = [state |-> "pending", reason |-> ""]
    /\ issuesOf = <<>>
    /\ response = NoResponse
    /\ grammarResults = <<>>
    /\ checking = FALSE
    /\ error = "null"
    /\ prevResults = <<>>
    /\ completed = <<>>
    /\ runs = 0

ParserStart ==
    /\ pc = "ingest"
    /\ lines = <<>>
    /\ map = <<>>
    /\ duplicateKeys = <<>>
    /\ rawValues = <<>>
    /\ result = EmptyResult

Init == ParserStart /\ GrammarIdle

Ingested == [map |-> map, duplicateKeys |-> duplicateKeys, rawValues |-> rawValues]

\* one iteration of lines.forEach, on the next line of the raw text
ProcessLineFrom(pool) ==
    /\ pc = "ingest"
    /\ Len(lines) < MaxLines
    /\ \E line \in pool :
        LET after == IngestLine(Ingested, line)
        IN  /\ lines' = Append(lines, line)
            /\ map' = after.map
            /\ duplicateKeys' = after.duplicateKeys
            /\ rawValues' = after.rawValues
    /\ UNCHANGED <<pc, result>>
    /\ UNCHANGED grammarVars

ProcessLine == ProcessLineFrom(Pool)
\* the same iteration, on a line of the texts of ValuePool
ProcessValueLine == ProcessLineFrom(ValuePool)

\* the raw text has no more lines: sort, derive the diagnostics, return
Finish ==
    /\ pc = "ingest"
    /\ pc' = "done"
    /\ result' = Diagnose(Ingested)
    /\ UNCHANGED <<lines, map, duplicateKeys, rawValues>>
    /\ UNCHANGED grammarVars

Next == ProcessLine \/ Finish

Spec == Init /\ [][Next]_vars

\* parseRubric on the raw texts made of the lines of ValuePool
ValueNext == ProcessValueLine \/ Finish

ValueSpec == Init /\ [][ValueNext]_vars

-----------------------------------------------------------------------------
(* The grammar check: runGrammarCheck (page.tsx) and POST (route.ts) *)

\* Q1_justification: bad
LineQ1Just ==
    <<"Q","1","_","j","u","s","t","i","f","i","c","a","t","i","o","n",":"," ","b","a","d">>
\* Q2_justification: ok
LineQ2Just ==
    <<"Q","2","_","j","u","s","t","i","f","i","c","a","t","i","o","n",":"," ","o","k">>
\* the rubric texts the page holds when the grammar check is run
Rubrics ==
    {<<>>,
     <<LineScore3>>,
     <<LineSub01Just>>,
     <<LineQ2Just, LineSub01Just>>,
     <<LineQ2Just, LineSub01Just, LineQ1Just>>}

\* parsed.entries.filter((e) => e.justification).map((e) => ({ id: e.id, text: e.justification }))
JustificationItems(parsed) ==
    LET picked == SelectSeq(parsed.entries, JustificationTruthy)
    IN  [i \in DOMAIN picked |-> [id |-> picked[i].id, text |-> picked[i].justification]]

MsgNoJustifications == "No justifications were found to check."
MsgItemsRequired == "items array is required"
\* why an outbound call rejects: response.ok is false, or fetch itself throws
CallFailures == {"LanguageTool error", "fetch failed"}
\* what LanguageTool may answer for a text: no match, or one match whose
\* context is the text
IssuesFor(text) ==
    {<<>>, <<[message |-> "Possible spelling mistake found.", context |-> text]>>}

Pending == [state |-> "pending", reason |-> ""]

\* Promise.all over the outbound calls, after call i settled with the others
\* as in cs: it rejects with the first rejection and resolves once every call
\* is fulfilled
SettleIgnoringRejections(cs, st, i, reason) ==
    IF st.state # "pending" THEN st
    ELSE IF \A j \in DOMAIN cs : cs[j] # "pending" THEN [state |-> "resolved", reason |-> ""]
    ELSE st
Settle(cs, st, i, reason) ==
    IF st.state # "pending" THEN st
    ELSE IF cs[i] = "rejected" THEN [state |-> "rejected", reason |-> reason]
    ELSE IF \A j \in DOMAIN cs : cs[j] = "fulfilled" THEN [state |-> "resolved", reason |-> ""]
    ELSE st

\* the response if each result took its issues from the call that settled at
\* its position, not from the call made for its item
ResponseInCompletionOrder(st, its, iss) ==
    IF st.state = "resolved"
    THEN [status |-> 200,
          results |-> [k \in DOMAIN its |-> [id |-> its[k].id, issues |-> iss[completed[k]]]],
          error |-> ""]
    ELSE [status |-> 500, results |-> <<>>, error |-> st.reason]

\* NextResponse.json({ results }) or, from the catch, NextResponse.json({ error }, { status: 500 })
ResponseOf(st, its, iss) ==
    IF st.state = "resolved"
    THEN [status |-> 200,
          results |-> [i \in DOMAIN its |-> [id |-> its[i].id, issues |-> iss[i]]],
          error |-> ""]
    ELSE [status |-> 500, results |-> <<>>, error |-> st.reason]

\* data.results.forEach((item) => { mapped[item.id] = item.issues })
Mapped(results) ==
    [id \in {results[i].id : i \in DOMAIN results} |->
        results[SetMax({i \in DOMAIN results : results[i].id = id})].issues]

GrammarInit ==
    /\ \E rubric \in Rubrics :
        /\ pc = "done"
        /\ lines = rubric
        /\ map = IngestAll(rubric).map
        /\ duplicateKeys = IngestAll(rubric).duplicateKeys
        /\ rawValues = IngestAll(rubric).rawValues
        /\ result = parseRubric(rubric)
        /\ items = JustificationItems(parseRubric(rubric))
    /\ gpc = "idle"
    /\ calls = <<>>
    /\ settled = Pending
    /\ issuesOf = <<>>
    /\ response = NoResponse
    /\ grammarResults = <<>>
    /\ checking = FALSE
    /\ error = "null"
    /\ prevResults = <<>>
    /\ completed = <<>>
    /\ runs = 0

\* the button's onClick, up to the await of fetch('/api/grammar')
RunGrammarCheck ==
    /\ gpc = "idle"
    /\ ~checking
    /\ runs < MaxRuns
    /\ runs' = runs + 1
    /\ IF Len(items) = 0
       THEN /\ error' = MsgNoJustifications
            /\ UNCHANGED <<gpc, calls, settled, issuesOf, response, grammarResults,
                           checking, prevResults, completed>>
       ELSE /\ checking' = TRUE
            /\ error' = "null"
            /\ gpc' = "requested"
            /\ calls' = <<>>
            /\ settled' = Pending
            /\ issuesOf' = <<>>
            /\ response' = NoResponse
            /\ prevResults' = grammarResults
            /\ completed' = <<>>
            /\ UNCHANGED grammarResults
    /\ UNCHANGED <<items>>
    /\ UNCHANGED parserVars

\* the page's fetch rejects: the request never reaches the route
FetchRejects ==
    /\ gpc = "requested"
    /\ error' = "Failed to fetch"
    /\ checking' = FALSE
    /\ gpc' = "idle"
    /\ UNCHANGED <<items, calls, settled, issuesOf, response, grammarResults,
                   prevResults, completed, runs>>
    /\ UNCHANGED parserVars

\* POST, up to the await of Promise.all: every outbound call is started
PostStart ==
    /\ gpc = "requested"
    /\ IF Len(items) = 0
       THEN /\ response' = [status |-> 400, results |-> <<>>, error |-> MsgItemsRequired]
            /\ gpc' = "responded"
            /\ UNCHANGED <<calls, issuesOf>>
       ELSE /\ calls' = [i \in DOMAIN items |-> "pending"]
            /\ issuesOf' = [i \in DOMAIN items |-> <<>>]
            /\ gpc' = "calling"
            /\ UNCHANGED response
    /\ UNCHANGED <<items, settled, grammarResults, checking, error, prevResults,
                   completed, runs>>
    /\ UNCHANGED parserVars

\* an outbound call completes with response.ok and its matches (the calls
\* still pending when Promise.all rejects keep running)
CallFulfils(i) ==
    /\ gpc \in {"calling", "responded", "idle"}
    /\ calls[i] = "pending"
    /\ \E issues \in IssuesFor(items[i].text) :
        issuesOf' = [issuesOf EXCEPT ![i] = issues]
    /\ calls' = [calls EXCEPT ![i] = "fulfilled"]
    /\ settled' = Settle(calls', settled, i, "")
    /\ completed' = Append(completed, i)
    /\ UNCHANGED <<items, gpc, response, grammarResults, checking, error, prevResults, runs>>
    /\ UNCHANGED parserVars

\* an outbound call fails: a status that is not OK, or fetch throws
CallRejects(i) ==
    /\ gpc \in {"calling", "responded", "idle"}
    /\ calls[i] = "pending"
    /\ calls' = [calls EXCEPT ![i] = "rejected"]
    /\ \E reason \in CallFailures : settled' = Settle(calls', settled, i, reason)
    /\ completed' = Append(completed, i)
    /\ UNCHANGED <<items, gpc, issuesOf, response, grammarResults, checking, error,
                   prevResults, runs>>
    /\ UNCHANGED parserVars

\* POST returns once Promise.all has settled
PostResponds ==
    /\ gpc = "calling"
    /\ settled.state # "pending"
    /\ response' = ResponseOf(settled, items, issuesOf)
    /\ gpc' = "responded"
    /\ UNCHANGED <<items, calls, settled, issuesOf, grammarResults, checking, error,
                   prevResults, completed, runs>>
    /\ UNCHANGED parserVars

\* runGrammarCheck after the await: res.ok or the catch, then the finally
PageReceives ==
    /\ gpc = "responded"
    /\ IF response.status = 200
       THEN /\ grammarResults' = Mapped(response.results)
            /\ UNCHANGED error
       ELSE /\ error' = response.error
            /\ UNCHANGED grammarResults
    /\ checking' = FALSE
    /\ gpc' = "idle"
    /\ UNCHANGED <<items, calls, settled, issuesOf, response, prevResults, completed,
                   runs>>
    /\ UNCHANGED parserVars

GrammarNext ==
    \/ RunGrammarCheck
    \/ FetchRejects
    \/ PostStart
    \/ \E i \in DOMAIN calls : CallFulfils(i)
    \/ \E i \in DOMAIN calls : CallRejects(i)
    \/ PostResponds
    \/ PageReceives

GrammarSpec == GrammarInit /\ [][GrammarNext]_vars

-----------------------------------------------------------------------------
(* What the properties say about a line, stated from the raw text *)

\* the line is white space only
IsBlankLine(l) == \A i \in DOMAIN l : IsSpace(l[i])
\* the first character that is not white space is "#"
IsCommentLine(l) ==
    \E i \in DOMAIN l : l[i] = "#" /\ \A j \in 1..(i - 1) : IsSpace(l[j])
\* key: value, a key before the first colon and a value after it
HasKeyValueShape(l) ==
    \E i \in DOMAIN l :
        /\ l[i] = ":"
        /\ \A j \in 1..(i - 1) : l[j] # ":"
        /\ \E j \in 1..(i - 1) : ~IsSpace(l[j])
        /\ \E j \in (i + 1)..Len(l) : ~IsSpace(l[j])
\* what the three tests and the position of the first colon say of a line:
\* whether it is accepted, and then its key and its value
FactsOf(l) ==
    LET accepted == ~IsBlankLine(l) /\ ~IsCommentLine(l) /\ HasKeyValueShape(l)
        colon == IndexOf(l, ":")
        original == Trim(SubSeq(l, colon + 1, Len(l)))
    IN  [accepted |-> accepted,
         key |-> IF accepted THEN Trim(SubSeq(l, 1, colon - 1)) ELSE <<>>,
         original |-> IF accepted THEN original ELSE <<>>,
         value |-> IF accepted THEN StripQuotes(original) ELSE <<>>]
\* the facts of every line of the model, computed once
LineFacts ==
    [l \in Pool \cup ValuePool \cup UNION {Range(r) : r \in Rubrics} |-> FactsOf(l)]
AcceptedLine(l) == LineFacts[l].accepted
\* the key and the value of an accepted line
KeyOfLine(l) == LineFacts[l].key
OriginalValueOfLine(l) == LineFacts[l].original
ValueOfLine(l) == LineFacts[l].value
\* the accepted lines among those consumed, in order
AcceptedLines == SelectSeq(lines, AcceptedLine)
\* the last underscore-delimited segment of a key
LastSegment(k) == SubSeq(k, LastIndexOf(k, "_") + 1, Len(k))
HasRole(k) == LastSegment(k) \in FIELD_NAMES
\* the positions in lines of the accepted lines whose key is k
Occurrences(k) ==
    {i \in DOMAIN lines : AcceptedLine(lines[i]) /\ KeyOfLine(lines[i]) = k}
AcceptedKeys == {KeyOfLine(lines[i]) : i \in {j \in DOMAIN lines : AcceptedLine(lines[j])}}
Max(S) == CHOOSE x \in S : \A y \in S : x >= y
Min(S) == CHOOSE x \in S : \A y \in S : x <= y
\* the entries returned whose id is id
EntriesWithId(id) == {i \in DOMAIN result.entries : result.entries[i].id = id}
\* the entries returned whose raw map holds the key k
EntriesHolding(k) == {i \in DOMAIN result.entries : k \in DOMAIN result.entries[i].raw}
\* the sum of f over a finite set of positions
RECURSIVE SumOver(_, _)
SumOver(S, f) ==
    IF S = {} THEN 0
    ELSE LET x == CHOOSE y \in S : TRUE IN f[x] + SumOver(S \ {x}, f)
\* the score of each returned entry, 0 when it has none
ScoreAt == [i \in DOMAIN result.entries |->
                IF result.entries[i].hasScore THEN result.entries[i].score ELSE 0]

-----------------------------------------------------------------------------
(* C1 *)

\* the typed attribute of entry e for the role of key k, as <<set, value>>
TypedAttribute(e, k) ==
    IF LastSegment(k) = SCORE THEN <<e.hasScore, IF e.hasScore THEN <<e.score>> ELSE <<>>>>
    ELSE IF LastSegment(k) = VERDICT THEN <<e.hasVerdict, e.verdict>>
    ELSE <<e.hasJustification, e.justification>>

\* C1: last-write-wins.  For every key with a recognized role that occurs
\* several times with different values, the returned entry of its id shows, in
\* the typed attribute of that role and in the raw map under that key, what
\* the last occurrence alone yields; nothing of an earlier occurrence remains.
C1_LastWriteWins ==
    pc = "done" =>
        \A k \in AcceptedKeys :
            (/\ HasRole(k)
             /\ Cardinality({ValueOfLine(lines[i]) : i \in Occurrences(k)}) > 1)
            =>
            LET last == lines[Max(Occurrences(k))]
                alone == parseRubric(<<last>>).entries[1]
            IN  \E i \in EntriesWithId(alone.id) :
                    /\ TypedAttribute(result.entries[i], k) = TypedAttribute(alone, k)
                    /\ result.entries[i].raw[k] = ValueOfLine(last)

-----------------------------------------------------------------------------
(* C2 *)

\* the keys of the accepted lines that repeat an earlier accepted line's key,
\* in the order of the lines
RepeatedKeys ==
    LET acc == AcceptedLines
        Rep(i) == \E j \in 1..(i - 1) : KeyOfLine(acc[j]) = KeyOfLine(acc[i])
    IN  Concat([i \in DOMAIN acc |-> IF Rep(i) THEN <<KeyOfLine(acc[i])>> ELSE <<>>])
CountIn(seq, x) == Cardinality({i \in DOMAIN seq : seq[i] = x})

-----------------------------------------------------------------------------
(* C3 *)

\* C3 as stated: the returned entries have pairwise distinct ids and ascend
\* by id under ordinal (code unit) comparison.
C3_OrdinalOrder ==
    pc = "done" =>
        \A i, j \in DOMAIN result.entries :
            i < j => OrdinalCompare(result.entries[i].id, result.entries[j].id) < 0

\* C3 amended: the returned entries have pairwise distinct ids and ascend by
\* id under the collation of localeCompare, whatever the order of the lines.
C3_LocaleOrder ==
    pc = "done" =>
        /\ \A i, j \in DOMAIN result.entries :
                i < j => LocaleCompare(result.entries[i].id, result.entries[j].id) < 0
        /\ \A i, j \in DOMAIN result.entries :
                i # j => result.entries[i].id # result.entries[j].id
        /\ {result.entries[i].id : i \in DOMAIN result.entries}
               = {map[i].k : i \in DOMAIN map}

\* two entries whose collation order is the reverse of their insertion order
\* and of their ordinal order
C3_Witness ==
    /\ pc = "done"
    /\ \E i, j \in DOMAIN result.entries :
        /\ i < j
        /\ OrdinalCompare(result.entries[i].id, result.entries[j].id) > 0
        /\ \E a, b \in DOMAIN map :
            a > b /\ map[a].k = result.entries[i].id /\ map[b].k = result.entries[j].id

-----------------------------------------------------------------------------
(* C4 *)

\* the returned entries whose id starts with id followed by an underscore
SubItemsOf(id) ==
    {i \in DOMAIN result.entries : StartsWith(result.entries[i].id, Append(id, "_"))}
\* the records of totalMismatches for id
MismatchesOf(id) ==
    {i \in DOMAIN result.totalMismatches : result.totalMismatches[i].id = id}

\* C4: a total entry (id without underscore, numeric score) whose score is
\* the sum of the scores of the entries under "<id>_" has no record in
\* totalMismatches; one whose score differs has exactly one, with reported =
\* its score and expected = that sum.  No other entry has a record.
C4_TotalMismatches ==
    pc = "done" =>
        /\ \A i \in DOMAIN result.entries :
            LET e == result.entries[i]
                sum == SumOver(SubItemsOf(e.id), ScoreAt)
            IN  IF ~HasChar(e.id, "_") /\ e.hasScore /\ e.score # sum
                THEN /\ Cardinality(MismatchesOf(e.id)) = 1
                     /\ \A m \in MismatchesOf(e.id) :
                            /\ result.totalMismatches[m].reported = e.score
                            /\ result.totalMismatches[m].expected = sum
                ELSE MismatchesOf(e.id) = {}
        /\ \A m \in DOMAIN result.totalMismatches :
                EntriesWithId(result.totalMismatches[m].id) # {}

\* one total that equals the sum of its sub-items and has no record, beside a
\* total that differs and has one
C4_Witness ==
    /\ pc = "done"
    /\ \E i, j \in DOMAIN result.entries :
        /\ ~HasChar(result.entries[i].id, "_") /\ result.entries[i].hasScore
        /\ SubItemsOf(result.entries[i].id) # {}
        /\ result.entries[i].score = SumOver(SubItemsOf(result.entries[i].id), ScoreAt)
        /\ result.entries[i].score # 0
        /\ MismatchesOf(result.entries[i].id) = {}
        /\ ~HasChar(result.entries[j].id, "_") /\ result.entries[j].hasScore
        /\ Cardinality(MismatchesOf(result.entries[j].id)) = 1

-----------------------------------------------------------------------------
(* C5 *)

\* the key without its last underscore-delimited segment (and that underscore)
WithoutLastSegment(k) == SubSeq(k, 1, LastIndexOf(k, "_") - 1)
\* no accepted line of a recognized role feeds the entry id
OnlyUnrecognizedKeys(id) ==
    \A k \in AcceptedKeys : k \in UNION {DOMAIN result.entries[i].raw : i \in EntriesWithId(id)}
                                => ~HasRole(k)
NoTypedAttribute(e) == ~e.hasScore /\ ~e.hasVerdict /\ ~e.hasJustification

\* C5 as stated: a key whose last segment is a role yields the id "key minus
\* that segment"; any other key keeps the whole key as its id, sets no typed
\* attribute and is stored only in the raw map of the entry with that id.
\* (A role key with nothing before the role is read here as keeping the whole
\* key, the reading most favourable to the statement.)
C5_IdDerivation ==
    pc = "done" =>
        \A k \in AcceptedKeys :
            LET id == IF HasRole(k) /\ WithoutLastSegment(k) # <<>>
                      THEN WithoutLastSegment(k) ELSE k
            IN  /\ EntriesHolding(k) = EntriesWithId(id)
                /\ Cardinality(EntriesHolding(k)) = 1

\* C5 amended: every key with a non-empty part before its last underscore
\* yields the id "key minus its last segment", whether or not that segment is
\* a role; a key with no underscore, or with nothing before its only
\* underscore, keeps the whole key as its id.  The pair is stored in the raw
\* map of the entry with that id and of no other, and an entry fed only by
\* keys of unrecognized role has no typed attribute.
C5_IdDerivationAmended ==
    pc = "done" =>
        \A k \in AcceptedKeys :
            LET id == IF WithoutLastSegment(k) # <<>> THEN WithoutLastSegment(k) ELSE k
            IN  /\ EntriesHolding(k) = EntriesWithId(id)
                /\ Cardinality(EntriesHolding(k)) = 1
                /\ \A i \in EntriesWithId(id) :
                    /\ result.entries[i].raw[k] = ValueOfLine(lines[Max(Occurrences(k))])
                    /\ OnlyUnrecognizedKeys(id) => NoTypedAttribute(result.entries[i])

\* a key of unrecognized role stored under its prefix, without typed
\* attribute, beside a bare role key that keeps the whole key as its id
C5_Witness ==
    /\ pc = "done"
    /\ \E k1, k2 \in AcceptedKeys :
        /\ ~HasRole(k1) /\ HasChar(k1, "_")
        /\ \E i \in EntriesHolding(k1) :
            /\ result.entries[i].id = WithoutLastSegment(k1)
            /\ NoTypedAttribute(result.entries[i])
        /\ HasRole(k2) /\ ~HasChar(k2, "_")
        /\ \E i \in EntriesHolding(k2) :
            result.entries[i].id = k2 /\ result.entries[i].hasScore

-----------------------------------------------------------------------------
(* C6 *)

\* v is w with white space around it, compared without regard to case
IsPadded(v, w) ==
    \E a \in 1..(Len(v) + 1) : \E b \in 0..Len(v) :
        /\ \A i \in 1..(a - 1) : IsSpace(v[i])
        /\ \A i \in (b + 1)..Len(v) : IsSpace(v[i])
        /\ ToLowerCase(Slice(v, a, b)) = ToLowerCase(w)
InInvalidVerdicts(e) == \E i \in DOMAIN result.invalidVerdicts : result.invalidVerdicts[i] = e

\* C6: an entry is in invalidVerdicts exactly when it has a non-empty verdict
\* that, trimmed and without regard to case, is neither ACCEPTED nor
\* WRONG_ANSWER; an entry without verdict is never in it.
C6_InvalidVerdicts ==
    pc = "done" =>
        /\ \A i \in DOMAIN result.entries :
            LET e == result.entries[i]
            IN  InInvalidVerdicts(e) <=>
                    /\ e.hasVerdict
                    /\ e.verdict # <<>>
                    /\ ~IsPadded(e.verdict, ACCEPTED)
                    /\ ~IsPadded(e.verdict, WRONG_ANSWER)
        /\ \A i \in DOMAIN result.invalidVerdicts :
                EntriesWithId(result.invalidVerdicts[i].id) # {}
        /\ Len(result.invalidVerdicts) <= Len(result.entries)

\* an invalid verdict is listed beside a padded, mixed-case ACCEPTED that is not
C6_Witness ==
    /\ pc = "done"
    /\ Len(result.invalidVerdicts) = 1
    /\ \E i \in DOMAIN result.entries :
        LET e == result.entries[i]
        IN  /\ e.hasVerdict /\ e.verdict # ACCEPTED /\ IsPadded(e.verdict, ACCEPTED)
            /\ IsSpace(Head(e.verdict))
            /\ ~InInvalidVerdicts(e)

-----------------------------------------------------------------------------
(* C7 *)

\* the prefixes, ending in an underscore, of the returned ids
GroupPrefixes ==
    {p \in UNION {{SubSeq(result.entries[i].id, 1, n) : n \in 1..Len(result.entries[i].id)} :
                    i \in DOMAIN result.entries} : p[Len(p)] = "_"}
\* the returned entries whose id is P followed by an integer
NumberedUnder(P) ==
    {i \in DOMAIN result.entries :
        /\ StartsWith(result.entries[i].id, P)
        /\ Len(result.entries[i].id) > Len(P)
        /\ \A n \in (Len(P) + 1)..Len(result.entries[i].id) : IsDigit(result.entries[i].id[n])}
IndexAt(P, i) == DecimalValue(SubSeq(result.entries[i].id, Len(P) + 1, Len(result.entries[i].id)))
IndicesUnder(P) == {IndexAt(P, i) : i \in NumberedUnder(P)}
\* the integers between the least and the greatest index under P that are absent
AbsentUnder(P) ==
    IF IndicesUnder(P) = {} THEN {}
    ELSE {n \in Min(IndicesUnder(P))..Max(IndicesUnder(P)) : n \notin IndicesUnder(P)}
SkippedRecordsOf(P) ==
    {i \in DOMAIN result.skippedIndices : result.skippedIndices[i].group = P}
StrictlyAscending(seq) == \A i, j \in DOMAIN seq : i < j => seq[i] < seq[j]

\* C7: skippedIndices has a record for the group prefix P exactly when, among
\* the ids P<integer>, an integer between the least and the greatest index is
\* absent; its missing list is those integers, ascending; a prefix has at most
\* one record, whatever indices are duplicated.
C7_SkippedIndices ==
    pc = "done" =>
        /\ \A P \in GroupPrefixes :
            IF AbsentUnder(P) # {}
            THEN /\ Cardinality(SkippedRecordsOf(P)) = 1
                 /\ \A r \in SkippedRecordsOf(P) :
                        /\ StrictlyAscending(result.skippedIndices[r].missing)
                        /\ Range(result.skippedIndices[r].missing) = AbsentUnder(P)
            ELSE SkippedRecordsOf(P) = {}
        /\ \A r \in DOMAIN result.skippedIndices :
                result.skippedIndices[r].group \in GroupPrefixes

\* indices 1, 1 and 3 under one prefix: one record, missing 2
C7_Witness ==
    /\ pc = "done"
    /\ Len(result.skippedIndices) = 1
    /\ result.skippedIndices[1].missing = <<2>>
    /\ \E i, j \in NumberedUnder(result.skippedIndices[1].group) :
        i # j /\ IndexAt(result.skippedIndices[1].group, i)
                    = IndexAt(result.skippedIndices[1].group, j)

-----------------------------------------------------------------------------
(* C8 *)

\* C8: expectedTotal is the sum of score over exactly the entries whose id
\* has an underscore, totalScore the sum over all entries, an entry without
\* score counting 0.
C8_Totals ==
    pc = "done" =>
        /\ result.expectedTotal =
                SumOver({i \in DOMAIN result.entries : HasChar(result.entries[i].id, "_")},
                        ScoreAt)
        /\ result.totalScore = SumOver(DOMAIN result.entries, ScoreAt)

\* a scored total, a scored sub-item and a sub-item without score
C8_Witness ==
    /\ pc = "done"
    /\ result.expectedTotal > 0
    /\ result.totalScore > result.expectedTotal
    /\ \E i \in DOMAIN result.entries :
        HasChar(result.entries[i].id, "_") /\ ~result.entries[i].hasScore

-----------------------------------------------------------------------------
(* C9 *)

NothingFound ==
    [entries |-> <<>>, totalScore |-> 0, expectedTotal |-> 0, wrongVerdicts |-> 0,
     invalidVerdicts |-> <<>>, missingJustifications |-> <<>>, totalMismatches |-> <<>>,
     casingIssues |-> <<>>, missingComponents |-> <<>>, duplicateKeys |-> <<>>,
     skippedIndices |-> <<>>, zeroScoreAccepted |-> <<>>, verdictConsistency |-> <<>>,
     extraQuoteVerdicts |-> <<>>]

\* C9: a text of blank lines, comment lines and lines not of the key: value
\* shape only (the empty text included) yields no entry, zero totals and
\* empty diagnostics; mixed with accepted lines, such lines add no entry and
\* no duplicateKeys element: the maps are those of the accepted lines alone.
C9_DroppedLines ==
    pc = "done" =>
        /\ (\A i \in DOMAIN lines : ~AcceptedLine(lines[i])) => result = NothingFound
        /\ Ingested = IngestAll(AcceptedLines)
        /\ Len(result.entries) <= Len(AcceptedLines)
        /\ \A i \in DOMAIN result.duplicateKeys : result.duplicateKeys[i] \in AcceptedKeys

\* a blank line, a comment and a line without value: nothing is returned
C9_Witness ==
    /\ pc = "done"
    /\ \E i, j, k \in DOMAIN lines :
        /\ IsBlankLine(lines[i])
        /\ IsCommentLine(lines[j])
        /\ ~IsBlankLine(lines[k]) /\ ~IsCommentLine(lines[k]) /\ ~HasKeyValueShape(lines[k])
    /\ result = NothingFound

-----------------------------------------------------------------------------
(* C10 *)

SomeCallRejected == \E i \in DOMAIN calls : calls[i] = "rejected"
AllCallsFulfilled == calls # <<>> /\ \A i \in DOMAIN calls : calls[i] = "fulfilled"

\* C10: the grammar proxy is all-or-nothing.  Once an outbound call has
\* failed, the response of POST is an error of status 500 without results,
\* and the page, having received it, has grammarResults as they were before
\* the check and error set; results are returned only when every outbound
\* call succeeded.
C10_AllOrNothing ==
    /\ SomeCallRejected =>
            /\ response.status \in {0, 500}
            /\ response.results = <<>>
            /\ gpc = "responded" => response.status = 500
            /\ (gpc = "idle" /\ response.status = 500) =>
                    /\ grammarResults = prevResults
                    /\ error = response.error
                    /\ error \in CallFailures
                    /\ ~checking
    /\ (response.status = 200 \/ response.results # <<>>) => AllCallsFulfilled
    /\ (gpc = "idle" /\ grammarResults # prevResults) =>
            /\ AllCallsFulfilled
            /\ response.status = 200

\* a second check in which one call succeeded and another failed: the page
\* keeps the results of the first check and shows the error
C10_Witness ==
    /\ gpc = "idle"
    /\ runs = 2
    /\ response.status = 500
    /\ \E i, j \in DOMAIN calls : calls[i] = "fulfilled" /\ calls[j] = "rejected"
    /\ \E id \in DOMAIN grammarResults : grammarResults[id] # <<>>
    /\ grammarResults = prevResults
    /\ error \in CallFailures

-----------------------------------------------------------------------------
(* C11 *)

\* the results of the response that carry the id
ResultsWithId(id) == {k \in DOMAIN response.results : response.results[k].id = id}
\* the ids of the requested items
RequestedIds == {items[i].id : i \in DOMAIN items}
\* two outbound calls settled in the opposite order of their items
OutOfOrder ==
    \E m, n \in DOMAIN completed : m < n /\ completed[m] > completed[n]

\* C11: grammar results are recombined by id, not by completion order.
\* Whatever the order in which the outbound calls completed, a successful
\* response has exactly one result per requested item, the result with an
\* item's id holds the issues that the call made with that item's text
\* returned, and the page, having received the response, stores those issues
\* under that id in grammarResults.
C11_RecombinedById ==
    response.status = 200 =>
        /\ Len(response.results) = Len(items)
        /\ \A i \in DOMAIN items :
            /\ Cardinality(ResultsWithId(items[i].id)) = 1
            /\ \A k \in ResultsWithId(items[i].id) :
                /\ response.results[k].issues = issuesOf[i]
                /\ \A n \in DOMAIN response.results[k].issues :
                        response.results[k].issues[n].context = items[i].text
        /\ gpc = "idle" =>
            /\ DOMAIN grammarResults = RequestedIds
            /\ \A i \in DOMAIN items : grammarResults[items[i].id] = issuesOf[i]

\* a successful check of several items whose calls completed out of order
\* and returned different issues, received by the page
C11_Witness ==
    /\ gpc = "idle"
    /\ response.status = 200
    /\ Len(items) >= 2
    /\ OutOfOrder
    /\ \E i, j \in DOMAIN items : issuesOf[i] # <<>> /\ issuesOf[j] = <<>>
    /\ \A i \in DOMAIN items : grammarResults[items[i].id] = issuesOf[i]

-----------------------------------------------------------------------------
(* C12 *)

\* the returned entry is a total (no underscore in its id) or a sub-item
IsTotalEntry(e) == ~HasChar(e.id, "_")
IsSubItemEntry(e) == HasChar(e.id, "_")
\* verdictConsistency holds the record of the first check for the id
FlaggedAcceptedButWrong(id) ==
    \E n \in DOMAIN result.verdictConsistency :
        result.verdictConsistency[n] = [id |-> id, message |-> MsgAcceptedButWrong]
\* some sub-item entry of the document has the verdict WRONG_ANSWER
SomeSubItemWrong ==
    \E j \in DOMAIN result.entries :
        /\ IsSubItemEntry(result.entries[j])
        /\ result.entries[j].hasVerdict
        /\ result.entries[j].verdict = WRONG_ANSWER

\* C12: first check of verdictConsistency.  A total entry whose verdict is
\* ACCEPTED has the record "Contains WRONG_ANSWER sub-items but final verdict
\* is ACCEPTED." if and only if some sub-item entry of the document has the
\* verdict WRONG_ANSWER; the verdicts of the other totals do not matter.
C12_AcceptedButWrong ==
    pc = "done" =>
        \A i \in DOMAIN result.entries :
            LET e == result.entries[i]
            IN  (IsTotalEntry(e) /\ e.hasVerdict /\ e.verdict = ACCEPTED) =>
                    (FlaggedAcceptedButWrong(e.id) <=> SomeSubItemWrong)

-----------------------------------------------------------------------------
(* C13 *)

\* the value begins and ends with a double quote, two characters at least
QuoteWrapped(v) == Len(v) >= 2 /\ v[1] = QUOTE /\ v[Len(v)] = QUOTE
\* the value without its first and last character
Inner(v) == SubSeq(v, 2, Len(v) - 1)
\* wrapped in doubled double quotes, as ""ACCEPTED""
DoublyWrapped(v) == QuoteWrapped(v) /\ QuoteWrapped(Inner(v))
\* wrapped in exactly one pair of double quotes
SinglyWrapped(v) == QuoteWrapped(v) /\ ~QuoteWrapped(Inner(v))
\* the original value of the last accepted line of key k
LastOriginal(k) == OriginalValueOfLine(lines[Max(Occurrences(k))])
IsVerdictKey(k) == Len(k) > Len(VERDICT) /\ SubSeq(k, Len(k) - Len(VERDICT), Len(k)) = <<"_">> \o VERDICT
\* extraQuoteVerdicts reports the id with the raw string
ReportedExtraQuote(id, raw) ==
    \E n \in DOMAIN result.extraQuoteVerdicts :
        result.extraQuoteVerdicts[n] = [id |-> id, raw |-> raw]
\* what the entry that holds key k stores for it: the raw-map value and, for
\* a verdict key, the verdict as well
StoredIs(k, v) ==
    /\ EntriesHolding(k) # {}
    /\ \A i \in EntriesHolding(k) :
        /\ result.entries[i].raw[k] = v
        /\ IsVerdictKey(k) => (result.entries[i].hasVerdict /\ result.entries[i].verdict = v)

\* C13 as stated: a value wrapped in exactly one pair of double quotes is
\* stored without that pair; a value wrapped in doubled double quotes is
\* stored as it was written, and for a key ending in _verdict the id and the
\* original string are reported in extraQuoteVerdicts.
C13_DoubledNotStripped ==
    pc = "done" =>
        \A k \in AcceptedKeys :
            LET o == LastOriginal(k)
            IN  /\ SinglyWrapped(o) => StoredIs(k, Inner(o))
                /\ DoublyWrapped(o) =>
                    /\ StoredIs(k, o)
                    /\ IsVerdictKey(k) =>
                        \A i \in EntriesHolding(k) : ReportedExtraQuote(result.entries[i].id, o)

\* C13 amended: a value that begins and ends with a double quote, doubled or
\* not, is stored without its outer pair, so ""ACCEPTED"" is stored as
\* "ACCEPTED" with the inner quotes; any other value is stored as written.
\* For a key ending in _verdict whose original value is wrapped in doubled
\* quotes, the id and the untouched original are reported in
\* extraQuoteVerdicts.
C13_OneLayerStripped ==
    pc = "done" =>
        \A k \in AcceptedKeys :
            LET o == LastOriginal(k)
            IN  /\ QuoteWrapped(o) => StoredIs(k, Inner(o))
                /\ ~QuoteWrapped(o) => StoredIs(k, o)
                /\ (DoublyWrapped(o) /\ IsVerdictKey(k)) =>
                        \A i \in EntriesHolding(k) : ReportedExtraQuote(result.entries[i].id, o)

\* a verdict written ""ACCEPTED"" stored as "ACCEPTED" and reported with its
\* original text, beside a verdict in single quotes stored without them
C13_Witness ==
    /\ pc = "done"
    /\ \E k1, k2 \in AcceptedKeys :
        /\ IsVerdictKey(k1) /\ DoublyWrapped(LastOriginal(k1))
        /\ \E i \in EntriesHolding(k1) :
            /\ result.entries[i].verdict = <<QUOTE>> \o ACCEPTED \o <<QUOTE>>
            /\ ReportedExtraQuote(result.entries[i].id, LastOriginal(k1))
        /\ IsVerdictKey(k2) /\ SinglyWrapped(LastOriginal(k2))
        /\ \E i \in EntriesHolding(k2) : result.entries[i].verdict = WRONG_ANSWER

-----------------------------------------------------------------------------
(* C14 *)

\* the text is a run of decimal digits
IsNumberText(v) == Len(v) > 0 /\ \A i \in DOMAIN v : v[i] \in DigitSet
\* the value a line stores: its original value without the outer quotes
StoredValueOf(o) == IF QuoteWrapped(o) THEN Inner(o) ELSE o
\* the accepted score lines that feed the returned entry e
ScoreLinesOf(e) ==
    {i \in DOMAIN lines :
        /\ AcceptedLine(lines[i])
        /\ LastSegment(KeyOfLine(lines[i])) = SCORE
        /\ KeyOfLine(lines[i]) \in DOMAIN e.raw}
\* e has score lines, and the value of none of them is a number
OnlyNonNumericScores(e) ==
    /\ ScoreLinesOf(e) # {}
    /\ \A i \in ScoreLinesOf(e) : ~IsNumberText(StoredValueOf(OriginalValueOfLine(lines[i])))
ListedMissingScore(id) ==
    \E n \in DOMAIN result.missingComponents :
        /\ result.missingComponents[n].id = id
        /\ \E m \in DOMAIN result.missingComponents[n].missing :
                result.missingComponents[n].missing[m] = "score"
InZeroScoreAccepted(id) ==
    \E n \in DOMAIN result.zeroScoreAccepted : result.zeroScoreAccepted[n].id = id
InTotalMismatches(id) ==
    \E n \in DOMAIN result.totalMismatches : result.totalMismatches[n].id = id

\* C14: a score line whose value is not a number, an empty quoted value
\* included, leaves the score unset.  An entry whose score lines all have
\* such values is returned with each pair in its raw map and without score,
\* is listed in missingComponents with "score" among the missing fields,
\* adds nothing to totalScore and expectedTotal, and is neither in
\* zeroScoreAccepted nor in totalMismatches.
C14_NonNumericScoreUnset ==
    pc = "done" =>
        \A x \in DOMAIN result.entries :
            LET e == result.entries[x]
                others == DOMAIN result.entries \ {x}
            IN  OnlyNonNumericScores(e) =>
                    /\ \A i \in ScoreLinesOf(e) :
                        e.raw[KeyOfLine(lines[i])] =
                            StoredValueOf(LastOriginal(KeyOfLine(lines[i])))
                    /\ ~e.hasScore
                    /\ ListedMissingScore(e.id)
                    /\ result.totalScore = SumOver(others, ScoreAt)
                    /\ result.expectedTotal =
                        SumOver({j \in others : IsSubItemEntry(result.entries[j])}, ScoreAt)
                    /\ ~InZeroScoreAccepted(e.id)
                    /\ ~InTotalMismatches(e.id)

=============================================================================
